---------------------------- MODULE Spec2Model ----------------------------
(***************************************************************************)
(* Knowledge pipeline of ca-copilot: the chunker                           *)
(* (app/rag/chunking/splitter.py), the ingestion task                      *)
(* (app/services/ingestion.py), the documents / doc_embeddings tables      *)
(* (app/models/models.py), the three upload endpoints, the scoped          *)
(* retriever (app/rag/retrieval.py) and the prompt context formatter       *)
(* (app/services/prompt.py).                                               *)
(*                                                                         *)
(* The specifications share the variables:                                 *)
(*   SplitSpec     runs RecursiveCharacterTextSplitter.split_text, one     *)
(*                 loop iteration per step, on every small text;           *)
(*   Spec          runs uploads, ingestions and retrievals against the     *)
(*                 store;                                                  *)
(*   ReingestSpec  runs uploads and ingestions, with ingest_document       *)
(*                 invoked again for a Document already ingested;          *)
(*   ScenarioSpec  uploads and ingests one text of 2,400 characters, the   *)
(*                 chunker running on it inside the task;                  *)
(*   LiveSpec      is the same scenario with the scheduling's fairness,    *)
(*                 the chunker's loop followed without a bound;            *)
(*   ChatSpec      runs conversations, uploads, ingestions and chat turns  *)
(*                 (app/api/endpoints/conversations.py);                   *)
(*   WorkerSpec    runs create_job and several run_worker loops            *)
(*                 (app/worker/main.py) on the jobs table;                 *)
(*   PromptSpec    runs format_context_for_prompt on every small hit list. *)
(***************************************************************************)
EXTENDS Integers, Sequences, FiniteSets, TLC

VARIABLES
    \* ---- split_text's locals (splitter.py) ----
    text,           \* the argument, a sequence of characters
    chunk_size,     \* self.chunk_size
    chunk_overlap,  \* self.chunk_overlap
    start,          \* the cursor
    chunks,         \* the list being built
    spans,          \* history: for each emitted chunk, the slice bounds it was cut with
    spc,            \* "idle" | "entry" | "loop" | "done"
    \* ---- the Knowledge Store and the requests against it ----
    documents,      \* table documents, in insertion order; the id is the index
    doc_embeddings, \* table doc_embeddings, in insertion order
    task,           \* per document, where its background ingest_document task is
    response,       \* what the most recent request returned to its caller
    \* ---- format_context_for_prompt (prompt.py) ----
    prompt_docs,    \* the argument `docs`: the hits, each a scope and a chunk text
    prompt_context, \* the string returned, as its lines; None before the call
    \* ---- conversations (conversations.py) ----
    conversations,  \* table conversations with conversation_kits; the id is the index
    \* ---- the batch jobs (models/job.py, worker/main.py) ----
    jobs,           \* table jobs: the committed status of each job; the id is the index
    worker,         \* per run_worker loop, where it is and the Job object its session holds
    runs            \* history: per job, how many times its dispatch was entered

splitVars == <<text, chunk_size, chunk_overlap, start, chunks, spans, spc>>
storeVars == <<documents, doc_embeddings, task, response>>
promptVars == <<prompt_docs, prompt_context>>
convVars == <<conversations>>
jobVars == <<jobs, worker, runs>>
vars == <<text, chunk_size, chunk_overlap, start, chunks, spans, spc,
          documents, doc_embeddings, task, response, prompt_docs, prompt_context,
          conversations, jobs, worker, runs>>

-----------------------------------------------------------------------------
(* Bounds of the model *)

MaxLen == 4          \* longest text given to split_text
MaxChunkSize == 3    \* largest chunk_size tried
MaxChunks == 6       \* loop iterations explored of a run that does not end
MaxDocs == 2         \* documents in the store
MaxChunksPerDoc == 2 \* chunks one ingestion persists
MaxVec == 1          \* embeddings are points 0..MaxVec of a line
MaxLimit == 1        \* explicit limit arguments 1..MaxLimit, besides the default
MaxQueryVec == 0     \* query embeddings are points 0..MaxQueryVec of the same line
MaxRows == 4         \* a repeated ingestion starts only if the table has room under MaxRows
ScenarioLen == 2400  \* length of the text of the reference scenario
SpaceStep == 50      \* the scenario's texts have their space at a multiple of SpaceStep

-----------------------------------------------------------------------------
(* Helpers *)

Min(a, b) == IF a <= b THEN a ELSE b

Range(s) == {s[i] : i \in 1..Len(s)}

\* Python's s[a:b] for 0 <= a, on a sequence (indices are 0-based, b exclusive).
Slice(s, a, b) ==
    LET hi == Min(b, Len(s))
    IN  IF a >= hi THEN <<>> ELSE [i \in 1..(hi - a) |-> s[a + i]]

Chars == {" ", "a", "b"}

Texts == UNION {[1..n -> Chars] : n \in 0..MaxLen}

-----------------------------------------------------------------------------
(* RecursiveCharacterTextSplitter (splitter.py)                            *)

\* str.rfind(' '): the 0-based offset of the last space of sub, or -1.
RFindSpace(sub) ==
    LET at == {i \in 1..Len(sub) : sub[i] = " "}
    IN  IF at = {} THEN -1 ELSE (CHOOSE i \in at : \A j \in at : j <= i) - 1

\* A window one character too long (text[start:end + 1]).
WindowOneTooLong(t, s, e) == Slice(t, s, e + 1)

\* sub = text[start:end]
Window(t, s, e) == Slice(t, s, e)

\* The cursor after a window with no space (line 30).
HardBreakStart(s, size, overlap) == (s + size) - overlap

\* The cursor after a window whose last space is at offset last_space:
\* line 33 assigns start, line 45 assigns it again from the new value, line 46 clamps.
SpaceBreakStart(s, last_space, overlap) ==
    LET s1 == s + last_space + 1 - overlap
        s2 == s1 + last_space - overlap
    IN  IF s2 < 0 THEN 0 ELSE s2

SplitInit ==
    /\ text \in Texts
    /\ chunk_size \in 1..MaxChunkSize
    /\ chunk_overlap \in 0..(chunk_size - 1)
    /\ start = 0
    /\ chunks = <<>>
    /\ spans = <<>>
    /\ spc = "entry"

\* lines 9-14: `if not text: return []`, else the locals are set up.
SplitEnter ==
    /\ spc = "entry"
    /\ spc' = IF text = <<>> THEN "done" ELSE "loop"
    /\ UNCHANGED <<text, chunk_size, chunk_overlap, start, chunks, spans>>
    /\ UNCHANGED storeVars
    /\ UNCHANGED promptVars
    /\ UNCHANGED <<convVars, jobVars>>

\* lines 16-20: the window reaches the end of the text: emit the rest and break.
SplitLast ==
    /\ spc = "loop"
    /\ start < Len(text)
    /\ Len(chunks) < MaxChunks
    /\ start + chunk_size >= Len(text)
    /\ chunks' = Append(chunks, Slice(text, start, Len(text)))
    /\ spans' = Append(spans, [from |-> start, to |-> Len(text)])
    /\ spc' = "done"
    /\ UNCHANGED <<text, chunk_size, chunk_overlap, start>>
    /\ UNCHANGED storeVars
    /\ UNCHANGED promptVars
    /\ UNCHANGED <<convVars, jobVars>>

\* lines 16-46: one iteration that does not break.
SplitIter ==
    /\ spc = "loop"
    /\ start < Len(text)
    /\ Len(chunks) < MaxChunks
    /\ start + chunk_size < Len(text)
    /\ LET end == start + chunk_size
           sub == Window(text, start, end)
           last_space == RFindSpace(sub)
       IN  IF last_space = -1
           THEN /\ chunks' = Append(chunks, sub)
                /\ spans' = Append(spans, [from |-> start, to |-> end])
                /\ start' = HardBreakStart(start, chunk_size, chunk_overlap)
           ELSE /\ chunks' = Append(chunks, Slice(sub, 0, last_space))
                /\ spans' = Append(spans, [from |-> start, to |-> start + last_space])
                /\ start' = SpaceBreakStart(start, last_space, chunk_overlap)
    /\ UNCHANGED <<text, chunk_size, chunk_overlap, spc>>
    /\ UNCHANGED storeVars
    /\ UNCHANGED promptVars
    /\ UNCHANGED <<convVars, jobVars>>

\* lines 16-46 once MaxChunks chunks are out: the loop goes on as the code
\* has it, the chunks it appends from there on are not recorded.
SplitSpin ==
    /\ spc = "loop"
    /\ start < Len(text)
    /\ Len(chunks) = MaxChunks
    /\ IF start + chunk_size >= Len(text)
       THEN spc' = "done" /\ start' = start
       ELSE /\ spc' = spc
            /\ LET last_space == RFindSpace(Window(text, start, start + chunk_size))
               IN  start' = IF last_space = -1
                             THEN HardBreakStart(start, chunk_size, chunk_overlap)
                             ELSE SpaceBreakStart(start, last_space, chunk_overlap)
    /\ UNCHANGED <<text, chunk_size, chunk_overlap, chunks, spans>>
    /\ UNCHANGED storeVars
    /\ UNCHANGED promptVars
    /\ UNCHANGED <<convVars, jobVars>>

\* line 16 false, line 48: the while test fails and the list is returned.
SplitReturn ==
    /\ spc = "loop"
    /\ start >= Len(text)
    /\ spc' = "done"
    /\ UNCHANGED <<text, chunk_size, chunk_overlap, start, chunks, spans>>
    /\ UNCHANGED storeVars
    /\ UNCHANGED promptVars
    /\ UNCHANGED <<convVars, jobVars>>

SplitNext == SplitEnter \/ SplitLast \/ SplitIter \/ SplitReturn

-----------------------------------------------------------------------------
(* The Knowledge Store (models.py)                                         *)

None == "None"

\* Two tenants (firms), one customer (client) of each, two topic kits.
Firms == {"T1", "T2"}
Clients == {"c1", "c2"}
Kits == {"k1", "k2"}

\* Client.firm_id
ClientFirm(c) == IF c = "c1" THEN "T1" ELSE "T2"

\* Conversation rows (firm_id, client_id): create_conversation stores the caller's
\* firm with whatever client_id the request names, so every pair can be a row.
Conversations == {[firm_id |-> f, client_id |-> c] : f \in Firms, c \in Clients}

\* class Scope
Scopes == {"FIRM", "KIT", "CLIENT"}

\* class DocumentStatus
UPLOADED == "uploaded"
PROCESSING == "processing"
READY == "ready"
FAILED == "failed"

\* Embeddings are abstracted to points of a line; the metric stays a distance.
Vecs == 0..MaxVec
QueryVecs == 0..MaxQueryVec

\* DocEmbedding.embedding.l2_distance(query_vector)
l2_distance(v, w) == IF v >= w THEN v - w ELSE w - v

\* The constraint with `client_id IS NULL` forgotten in the FIRM clause.
check_scope_constraints_firm_any_client(doc) ==
    \/ (doc.scope = "FIRM" /\ doc.kit_id = None)
    \/ (doc.scope = "KIT" /\ doc.kit_id # None /\ doc.client_id = None)
    \/ (doc.scope = "CLIENT" /\ doc.client_id # None /\ doc.kit_id = None)

\* CheckConstraint check_scope_constraints on table documents.
check_scope_constraints(doc) ==
    \/ (doc.scope = "FIRM" /\ doc.kit_id = None /\ doc.client_id = None)
    \/ (doc.scope = "KIT" /\ doc.kit_id # None /\ doc.client_id = None)
    \/ (doc.scope = "CLIENT" /\ doc.client_id # None /\ doc.kit_id = None)

\* A Document created already READY (as scripts/seed_samples.py does by hand).
NewDocumentReady(scope, firm_id, client_id, kit_id) ==
    [scope |-> scope, firm_id |-> firm_id, client_id |-> client_id,
     kit_id |-> kit_id, status |-> "ready"]

\* Document(...) as the upload endpoints build it.
NewDocument(scope, firm_id, client_id, kit_id) ==
    [scope |-> scope, firm_id |-> firm_id, client_id |-> client_id,
     kit_id |-> kit_id, status |-> UPLOADED]

NoResponse == [op |-> "none", status |-> 0]

\* db.add(document); await db.commit(): the row is inserted unless the CHECK
\* constraint refuses it, and then the commit raises (a 500 for a request).
\* `schedule` says whether `await db.refresh(document)` and
\* background_tasks.add_task(ingest_document, id) follow: if the refresh raises,
\* the row is already committed, the request fails and add_task is not reached.
\* `stored` in the response says whether the row was inserted.
CommitDocument(doc, schedule, resp) ==
    IF check_scope_constraints(doc)
    THEN \/ /\ documents' = Append(documents, doc)
            /\ task' = Append(task, IF schedule THEN "scheduled" ELSE "none")
            /\ response' = [stored |-> TRUE] @@ [resp EXCEPT !.status = 200]
         \/ /\ schedule
            /\ documents' = Append(documents, doc)
            /\ task' = Append(task, "none")
            /\ response' = [stored |-> TRUE] @@ [resp EXCEPT !.status = 500]
    ELSE /\ UNCHANGED <<documents, task>>
         /\ response' = [stored |-> FALSE] @@ [resp EXCEPT !.status = 500]

StoreInit ==
    /\ documents = <<>>
    /\ doc_embeddings = <<>>
    /\ task = <<>>
    /\ response = NoResponse

-----------------------------------------------------------------------------
(* The upload endpoints                                                    *)

\* documents.py, "Validate Scope": the identifiers kept for each scope, or a 400.
ValidateScope(scope, client_id, kit_id) ==
    CASE scope = "FIRM" -> [ok |-> TRUE, client_id |-> None, kit_id |-> None]
      [] scope = "CLIENT" -> [ok |-> client_id # None, client_id |-> client_id, kit_id |-> None]
      [] scope = "KIT" -> [ok |-> kit_id # None, client_id |-> None, kit_id |-> kit_id]

\* POST /documents/upload by a user of firm `user_firm`.
upload_document(user_firm, scope, client_id, kit_id) ==
    LET v == ValidateScope(scope, client_id, kit_id)
        resp == [op |-> "upload", status |-> 0]
    IN  /\ response = NoResponse
        /\ IF ~v.ok
           THEN /\ response' = [resp EXCEPT !.status = 400]
                /\ UNCHANGED <<documents, task>>
           ELSE /\ Len(documents) < MaxDocs
                /\ CommitDocument(NewDocument(scope, user_firm, v.client_id, v.kit_id),
                                  TRUE, resp)
        /\ UNCHANGED doc_embeddings
        /\ UNCHANGED splitVars
        /\ UNCHANGED promptVars
        /\ UNCHANGED <<convVars, jobVars>>

\* POST /clients/{client_id}/upload
upload_client_document(user_firm, client_id) ==
    LET resp == [op |-> "upload", status |-> 0]
    IN  /\ response = NoResponse
        /\ IF ClientFirm(client_id) # user_firm
           THEN /\ response' = [resp EXCEPT !.status = 404]
                /\ UNCHANGED <<documents, task>>
           ELSE /\ Len(documents) < MaxDocs
                /\ CommitDocument(NewDocument("CLIENT", user_firm, client_id, None),
                                  TRUE, resp)
        /\ UNCHANGED doc_embeddings
        /\ UNCHANGED splitVars
        /\ UNCHANGED promptVars
        /\ UNCHANGED <<convVars, jobVars>>

\* POST /conversations/{conv_id}/upload
upload_conversation_document(user_firm, conv) ==
    LET resp == [op |-> "upload", status |-> 0]
    IN  /\ response = NoResponse
        /\ IF conv.firm_id # user_firm
           THEN /\ response' = [resp EXCEPT !.status = 404]
                /\ UNCHANGED <<documents, task>>
           ELSE /\ Len(documents) < MaxDocs
                /\ CommitDocument(NewDocument("CLIENT", user_firm, conv.client_id, None),
                                  TRUE, resp)
        /\ UNCHANGED doc_embeddings
        /\ UNCHANGED splitVars
        /\ UNCHANGED promptVars
        /\ UNCHANGED <<convVars, jobVars>>

\* tests/test_compliance.py: a Document built by hand (no firm_id, the column's
\* default status) is added to a session and committed.
AddDocument(scope, client_id, kit_id) ==
    LET doc == NewDocument(scope, None, client_id, kit_id)
    IN  /\ response = NoResponse
        /\ Len(documents) < MaxDocs
        /\ CommitDocument(doc, FALSE, [op |-> "add", status |-> 0, doc |-> doc])
        /\ UNCHANGED doc_embeddings
        /\ UNCHANGED splitVars
        /\ UNCHANGED promptVars
        /\ UNCHANGED <<convVars, jobVars>>

-----------------------------------------------------------------------------
(* ingest_document (ingestion.py), cut at its commits: between two commits *)
(* the task touches only its own session, which no other task or request   *)
(* can see. What a step did (the branch it took, what raised, which        *)
(* collaborators it called) is left in `response` until the next step.     *)

\* The same written as an UPDATE of every Document of d's firm.
SetStatusOfFirm(d, s) ==
    documents' = [e \in DOMAIN documents |->
                     IF documents[e].firm_id = documents[d].firm_id
                     THEN [documents[e] EXCEPT !.status = s]
                     ELSE documents[e]]

\* document.status = s; await db.commit(): an UPDATE of that row's status.
SetStatus(d, s) == documents' = [documents EXCEPT ![d].status = s]

TaskTo(d, pc) == task' = [task EXCEPT ![d] = pc]

\* The same with an `except` that lets the embedder's exceptions through.
ReachesCallerFromEmbedder(at) == at = "embedder"

\* `except Exception` (line 94) with a handler that swallows its own failure
\* (lines 101-102): whatever stage raised, nothing reaches the caller.
ReachesCaller(at) == FALSE

\* What one step of ingest_document(d) did: the branch taken, the stage that
\* raised ("none" if none did), how the handler's commit went ("none" if the
\* handler did not run), and the collaborators called.
Observe(d, outcome, at, handler, calls) ==
    response' = [op |-> "ingest", status |-> 0, document_id |-> d,
                 outcome |-> outcome, at |-> at, handler |-> handler,
                 calls |-> calls, raised |-> ReachesCaller(at)]

\* lines 37-50: download_to_temp is called for a cloud path only.
Resolved(cloud) == IF cloud THEN {"storage"} ELSE {}

\* The same without the `return` of line 57: the task goes on after FAILED.
FileNotFoundNoReturn(d) == SetStatus(d, "failed") /\ TaskTo(d, "processing")

\* The same returning without the status write of lines 55-56.
FileNotFoundKeepsStatus(d) == UNCHANGED documents /\ TaskTo(d, "done")

\* lines 53-57: the file is not there: FAILED is committed and the task returns.
FileNotFound(d) == SetStatus(d, FAILED) /\ TaskTo(d, "done")

\* The same without the `return` of line 70.
EmptyTextNoReturn(d) == SetStatus(d, FAILED) /\ TaskTo(d, "processing")

\* lines 66-70: no text extracted: FAILED is committed and the task returns.
EmptyText(d) == SetStatus(d, FAILED) /\ TaskTo(d, "done")

\* lines 94-102: the handler; its own commit succeeds, or raises and is swallowed.
HandlerCommits(d) == SetStatus(d, FAILED) /\ TaskTo(d, "done")
HandlerFails(d) == UNCHANGED documents /\ TaskTo(d, "done")

\* The i-th chunk split_text returned: its text when the model carries it,
\* else a name for it.
ChunkText(i) == IF spc = "idle" THEN <<"chunk", i>> ELSE chunks[i]

\* lines 80-89: one DocEmbedding per pair of zip(chunks, vectors), which stops
\* at the shorter of the two; chunk_index counts the pairs from 0. n is len(chunks).
EmbeddingRows(d, n, vectors) ==
    [i \in 1..Min(n, Len(vectors)) |->
        [document_id |-> d, chunk_index |-> i - 1, chunk_text |-> ChunkText(i),
         embedding |-> vectors[i]]]

\* A run that went through: besides the path, the number of chunks split_text
\* returned and the vectors embed_batch returned.
ObserveReady(d, calls, n, vectors) ==
    response' = [op |-> "ingest", status |-> 0, document_id |-> d,
                 outcome |-> "ready", at |-> "none", handler |-> "none",
                 calls |-> calls, raised |-> ReachesCaller("none"),
                 chunks |-> n, vectors |-> vectors]

\* The same with the Document's earlier rows deleted first.
AddAllReplacing(rows) ==
    SelectSeq(doc_embeddings, LAMBDA r : \A i \in 1..Len(rows) : r.document_id # rows[i].document_id)
        \o rows

\* lines 81-92: db.add of every row, then the commit: the rows are appended
\* to the table, whatever it holds.
AddAll(rows) == doc_embeddings \o rows

\* The handler commits the session as it is (there is no rollback before line
\* 100): rows added by db.add and not yet flushed go out with the FAILED status.
HandlerFlushes(pending) == doc_embeddings' = doc_embeddings \o pending

\* The handler after `raised_at`, with `pending` rows in the session.
Handler(d, outcome, raised_at, calls, pending) ==
    \/ /\ HandlerCommits(d)
       /\ HandlerFlushes(pending)
       /\ Observe(d, outcome, raised_at, "committed", calls)
    \/ /\ HandlerFails(d)
       /\ UNCHANGED doc_embeddings
       /\ Observe(d, outcome, raised_at, "failed", calls)

\* lines 14-26: load the Document, set PROCESSING, commit.
IngestBegin(d) ==
    /\ response = NoResponse
    /\ task[d] = "scheduled"
    /\ \/ /\ SetStatus(d, PROCESSING) /\ TaskTo(d, "processing")
          /\ UNCHANGED doc_embeddings
          /\ Observe(d, "begin", "none", "none", {})
       \* line 17 raises: `document` is unbound, the handler's own try swallows that
       \/ /\ UNCHANGED documents /\ TaskTo(d, "done")
          /\ UNCHANGED doc_embeddings
          /\ Observe(d, "begin", "fetch", "failed", {})
       \* line 26 raises: the handler runs with PROCESSING never persisted
       \/ Handler(d, "begin", "commit", {}, <<>>)
    /\ UNCHANGED splitVars
    /\ UNCHANGED promptVars
    /\ UNCHANGED <<convVars, jobVars>>

\* The text parse() returned and what split_text made of it: any, unless the
\* model carries the text (spc # "idle"), and then that text, the call of
\* split_text on it in the order of the code, and the chunks it returned.
BeforeSplit == spc \in {"idle", "entry"}
ParsedEmpty == spc = "idle" \/ (spc = "entry" /\ text = <<>>)
ParsedText == spc = "idle" \/ text # <<>>
Splitting == spc # "done"
SplitReturned == spc = "idle" \/ (spc = "done" /\ chunks # <<>>)
ChunkCounts == IF spc = "idle" THEN 1..MaxChunksPerDoc ELSE {Len(chunks)}

Storage == {"storage"}
Parser == {"parser"}
Splitter == {"splitter"}
Embedder == {"embedder"}

\* lines 28-102: resolve the file, parse, chunk, embed, add the rows, commit READY.
IngestRun(d) ==
    /\ response = NoResponse
    /\ task[d] = "processing"
    /\ \E cloud \in BOOLEAN :
       LET resolved == Resolved(cloud)
           parsed == resolved \cup Parser
           chunked == parsed \cup Splitter
           embedded == chunked \cup Embedder
       IN
       \* line 41 raises
       \/ cloud /\ BeforeSplit /\ Handler(d, "error", "storage", resolved, <<>>)
       \* lines 53-57, the commit of line 56 going through or raising
       \/ /\ BeforeSplit
          /\ FileNotFound(d)
          /\ UNCHANGED doc_embeddings
          /\ Observe(d, "not_found", "none", "none", resolved)
       \/ BeforeSplit /\ Handler(d, "not_found", "commit", resolved, <<>>)
       \* line 60 raises
       \/ BeforeSplit /\ Handler(d, "error", "parser", parsed, <<>>)
       \* lines 66-70, the commit of line 69 going through or raising
       \/ /\ ParsedEmpty
          /\ EmptyText(d)
          /\ UNCHANGED doc_embeddings
          /\ Observe(d, "empty", "none", "none", parsed)
       \/ ParsedEmpty /\ Handler(d, "empty", "commit", parsed, <<>>)
       \* line 74 raises
       \/ ParsedText /\ Splitting /\ Handler(d, "error", "splitter", chunked, <<>>)
       \* line 78 raises
       \/ ParsedText /\ SplitReturned /\ Handler(d, "error", "embedder", embedded, <<>>)
       \/ /\ ParsedText
          /\ SplitReturned
          \* line 78 returns a list of m vectors, one per chunk or not
          /\ \E n \in ChunkCounts : \E m \in 0..(n + 1) : \E vectors \in [1..m -> Vecs] :
                \* lines 80-92 go through
                \/ /\ doc_embeddings' = AddAll(EmbeddingRows(d, n, vectors))
                   /\ SetStatus(d, READY)
                   /\ TaskTo(d, "done")
                   /\ ObserveReady(d, embedded, n, vectors)
                \* the loop of lines 81-89 raises with k rows added to the session
                \/ \E k \in 1..(Min(n, m) - 1) :
                      Handler(d, "ready", "add", embedded,
                              SubSeq(EmbeddingRows(d, n, vectors), 1, k))
                \* the commit of line 92 raises: its rollback empties the session
                \/ Handler(d, "ready", "commit", embedded, <<>>)
    /\ UNCHANGED splitVars
    /\ UNCHANGED promptVars
    /\ UNCHANGED <<convVars, jobVars>>

\* The same without the `return` of line 22: the task goes on to resolve a file.
IngestUnknownNoReturn(id) ==
    /\ response = NoResponse
    /\ id \notin 1..Len(documents)
    /\ Observe(id, "unknown", "none", "none", Storage)
    /\ UNCHANGED <<documents, doc_embeddings, task>>
    /\ UNCHANGED splitVars
    /\ UNCHANGED promptVars
    /\ UNCHANGED <<convVars, jobVars>>

\* ingest_document(id) for an id with no row (lines 16-22): nothing is found, or
\* the query raises and the handler's own try swallows the unbound `document`.
IngestUnknown(id) ==
    /\ response = NoResponse
    /\ id \notin 1..Len(documents)
    /\ \/ Observe(id, "unknown", "none", "none", {})
       \/ Observe(id, "unknown", "fetch", "failed", {})
    /\ UNCHANGED <<documents, doc_embeddings, task>>
    /\ UNCHANGED splitVars
    /\ UNCHANGED promptVars
    /\ UNCHANGED <<convVars, jobVars>>

\* A caller invokes ingest_document(d) again after the first invocation
\* returned; no code of the repository does (each upload schedules it once).
Reingest(d) ==
    /\ response = NoResponse
    /\ task[d] = "done"
    /\ Len(doc_embeddings) + MaxChunksPerDoc <= MaxRows
    /\ TaskTo(d, "scheduled")
    /\ UNCHANGED <<documents, doc_embeddings, response>>
    /\ UNCHANGED splitVars
    /\ UNCHANGED promptVars
    /\ UNCHANGED <<convVars, jobVars>>

-----------------------------------------------------------------------------
(* Retriever.retrieve (retrieval.py)                                       *)

DefaultLimit == 5

\* line 44
ClientClause(doc, client_id) == doc.scope = "CLIENT" /\ doc.client_id = client_id

\* line 45
FirmClause(doc, firm_id) == doc.scope = "FIRM" /\ doc.firm_id = firm_id

\* The kit clause without `.in_(kit_ids)`.
KitClauseAnyKit(doc, kit_ids) == doc.scope = "KIT"

\* line 49
KitClause(doc, kit_ids) == doc.scope = "KIT" /\ doc.kit_id \in kit_ids

\* lines 43-51: or_(*conditions), the kit clause appended only `if kit_ids`.
where_clause(doc, firm_id, client_id, kit_ids) ==
    \/ ClientClause(doc, client_id)
    \/ FirmClause(doc, firm_id)
    \/ (kit_ids # {} /\ KitClause(doc, kit_ids))

\* select(DocEmbedding).join(Document).where(where_clause): the rows, by position.
Matching(firm_id, client_id, kit_ids) ==
    {r \in 1..Len(doc_embeddings) :
        where_clause(documents[doc_embeddings[r].document_id], firm_id, client_id, kit_ids)}

Distance(r, query_vector) == l2_distance(doc_embeddings[r].embedding, query_vector)

\* The orders in which the database may hand the matching rows to the sort.
Scans(rows) ==
    {s \in [1..Cardinality(rows) -> rows] : \A i, j \in DOMAIN s : i # j => s[i] # s[j]}

\* The statement without .order_by(...): the rows as scanned.
order_by_nothing(scan, query_vector) == scan

\* .order_by(l2_distance): the scan sorted on the distance alone; rows at the same
\* distance stay as the scan had them.
RECURSIVE order_by(_, _)
order_by(scan, query_vector) ==
    IF scan = <<>> THEN <<>>
    ELSE LET h == Head(scan)
             rest == order_by(Tail(scan), query_vector)
             closer == SelectSeq(rest, LAMBDA x : Distance(x, query_vector) < Distance(h, query_vector))
             others == SelectSeq(rest, LAMBDA x : Distance(x, query_vector) >= Distance(h, query_vector))
         IN  closer \o <<h>> \o others

\* .limit(limit)
Limit(rows, limit) == SubSeq(rows, 1, Min(limit, Len(rows)))

Limits == (1..MaxLimit) \cup {DefaultLimit}

\* The same with the failure caught and an unranked empty answer returned.
EmbedFailureDegrades ==
    [op |-> "retrieve", status |-> 200, embedded |-> FALSE, queried |-> TRUE, hits |-> <<>>]

\* line 24, self.embedder.embed_text(query) raising: nothing in retrieve
\* catches it, the statement of lines 57-67 is never built nor executed.
EmbedFailure == [op |-> "retrieve", status |-> 500, embedded |-> FALSE, queried |-> FALSE]

retrieve(firm_id, client_id, kit_ids, query_vector, limit) ==
    /\ response = NoResponse
    /\ \/ response' = EmbedFailure
       \/ \E scan \in Scans(Matching(firm_id, client_id, kit_ids)) :
             response' = [op |-> "retrieve", status |-> 200,
                          embedded |-> TRUE, queried |-> TRUE,
                          firm_id |-> firm_id, client_id |-> client_id, kit_ids |-> kit_ids,
                          query_vector |-> query_vector, limit |-> limit,
                          hits |-> Limit(order_by(scan, query_vector), limit)]
    /\ UNCHANGED <<documents, doc_embeddings, task>>
    /\ UNCHANGED splitVars
    /\ UNCHANGED promptVars
    /\ UNCHANGED <<convVars, jobVars>>

\* The request returns: its response goes to the caller and is kept nowhere.
\* Requests and task steps are taken one at a time, each from a store at rest.
Deliver ==
    /\ response # NoResponse
    /\ response' = NoResponse
    /\ UNCHANGED <<documents, doc_embeddings, task>>
    /\ UNCHANGED splitVars
    /\ UNCHANGED promptVars
    /\ UNCHANGED <<convVars, jobVars>>

-----------------------------------------------------------------------------
(* PromptService.format_context_for_prompt (prompt.py). A string is the     *)
(* sequence of its lines; a chunk text is one line.                         *)

MaxHits == 3   \* longest hit list formatted

ChunkTexts == {"x", "y"}

\* The hit lists given to the formatter: each hit has the scope of its
\* Document (d.document.scope.value) and its text (d.chunk_text).
HitLists ==
    UNION {[1..n -> [scope : Scopes, chunk_text : ChunkTexts]] : n \in 0..MaxHits}

\* lines 33-38: the header of each scope's section.
Header(scope) ==
    CASE scope = "KIT" -> "### SPECIALIST KNOWLEDGE (KITS):"
      [] scope = "FIRM" -> "### FIRM KNOWLEDGE:"
      [] scope = "CLIENT" -> "### CLIENT CONTEXT:"

\* The same with the FIRM section tested and appended first.
SectionOrderFirmFirst == <<"FIRM", "KIT", "CLIENT">>

\* lines 33-38: the three `if grouped[...]` tests, in the order they are written.
SectionOrder == <<"KIT", "FIRM", "CLIENT">>

\* lines 24-30: grouped[d.document.scope.value].append(d.chunk_text), for d in docs.
RECURSIVE grouped(_, _)
grouped(docs, scope) ==
    IF docs = <<>> THEN <<>>
    ELSE LET rest == grouped(Tail(docs), scope)
         IN  IF Head(docs).scope = scope THEN <<Head(docs).chunk_text>> \o rest ELSE rest

\* header + "\n" + "\n".join(grouped[scope])
Section(docs, scope) == <<Header(scope)>> \o grouped(docs, scope)

\* lines 32-38: context_parts, one section per scope that has a hit.
RECURSIVE context_parts(_, _)
context_parts(docs, order) ==
    IF order = <<>> THEN <<>>
    ELSE LET rest == context_parts(docs, Tail(order))
         IN  IF grouped(docs, Head(order)) # <<>>
             THEN <<Section(docs, Head(order))>> \o rest
             ELSE rest

\* "\n\n".join(parts): a blank line between two parts.
RECURSIVE JoinBlank(_)
JoinBlank(parts) ==
    IF parts = <<>> THEN <<>>
    ELSE IF Len(parts) = 1 THEN parts[1]
    ELSE parts[1] \o <<"">> \o JoinBlank(Tail(parts))

PromptIdle ==
    /\ prompt_docs = <<>>
    /\ prompt_context = None

\* lines 21-40: group the hits by scope, emit the sections, join them.
format_context_for_prompt ==
    /\ prompt_context = None
    /\ prompt_context' = JoinBlank(context_parts(prompt_docs, SectionOrder))
    /\ UNCHANGED prompt_docs
    /\ UNCHANGED splitVars
    /\ UNCHANGED storeVars
    /\ UNCHANGED <<convVars, jobVars>>

-----------------------------------------------------------------------------
(* Conversations and the chat turn (conversations.py). The messages and    *)
(* retrieval_logs tables are left out: chat only appends to them.          *)

MaxConvs == 1

ConvIds == 1..MaxConvs

ConvIdle == conversations = <<>>

\* POST /conversations/ by a user of firm `user_firm`: Conversation(client_id=
\* conv_in.client_id, firm_id=current_user.firm_id), the client_id as sent.
\* With a service_id, line 35 evaluates Service.firm_id, an attribute class
\* Service does not have: the request fails before db.add.
create_conversation(user_firm, client_id, with_service) ==
    LET resp == [op |-> "create_conversation", status |-> 0]
    IN  /\ response = NoResponse
        /\ IF with_service
           THEN /\ response' = [resp EXCEPT !.status = 500]
                /\ UNCHANGED conversations
           ELSE /\ Len(conversations) < MaxConvs
                /\ \/ /\ conversations' = Append(conversations,
                             [firm_id |-> user_firm, client_id |-> client_id,
                              attached_kits |-> {}])
                      /\ response' = [resp EXCEPT !.status = 200]
                   \/ /\ response' = [resp EXCEPT !.status = 500]
                      /\ UNCHANGED conversations
        /\ UNCHANGED <<documents, doc_embeddings, task>>
        /\ UNCHANGED splitVars
        /\ UNCHANGED promptVars
        /\ UNCHANGED jobVars

\* PUT /conversations/{conv_id}/kits: the conversation is looked up with the
\* caller's firm; the kits are every Kit whose id is in kit_ids.
attach_kits(user_firm, conv_id, kit_ids) ==
    LET resp == [op |-> "attach_kits", status |-> 0]
    IN  /\ response = NoResponse
        /\ IF conv_id \notin DOMAIN conversations
              \/ conversations[conv_id].firm_id # user_firm
           THEN /\ response' = [resp EXCEPT !.status = 404]
                /\ UNCHANGED conversations
           ELSE /\ conversations' =
                      [conversations EXCEPT ![conv_id].attached_kits = kit_ids \cap Kits]
                /\ response' = [resp EXCEPT !.status = 200]
        /\ UNCHANGED <<documents, doc_embeddings, task>>
        /\ UNCHANGED splitVars
        /\ UNCHANGED promptVars
        /\ UNCHANGED jobVars

\* POST /conversations/{conv_id}/chat: 404, 403, or retriever.retrieve(query,
\* firm_id=conv.firm_id, client_id=conv.client_id, kit_ids) with the default
\* limit; the citations are built from the hits, one each. A failure of
\* embed_text leaves the request (LLMService.generate_response catches its own).
chat(user_firm, conv_id, query_vector) ==
    LET resp == [op |-> "chat", status |-> 0, user_firm |-> user_firm]
    IN  /\ response = NoResponse
        /\ IF conv_id \notin DOMAIN conversations
           THEN response' = [resp EXCEPT !.status = 404]
           ELSE LET conv == conversations[conv_id]
                IN  IF conv.firm_id # user_firm
                    THEN response' = [resp EXCEPT !.status = 403]
                    ELSE \/ response' = [resp EXCEPT !.status = 500]
                         \/ \E scan \in Scans(Matching(conv.firm_id, conv.client_id,
                                                       conv.attached_kits)) :
                               LET docs == Limit(order_by(scan, query_vector), DefaultLimit)
                               IN  response' = [hits |-> docs, citations |-> docs,
                                                client_id |-> conv.client_id]
                                                   @@ [resp EXCEPT !.status = 200]
        /\ UNCHANGED <<documents, doc_embeddings, task>>
        /\ UNCHANGED splitVars
        /\ UNCHANGED promptVars
        /\ UNCHANGED <<convVars, jobVars>>

-----------------------------------------------------------------------------
(* The batch jobs: create_job (jobs.py) and run_worker (worker/main.py).   *)
(* Each run_worker loop has its own session; a step is one statement       *)
(* against the jobs table or one commit.                                   *)

MaxJobs == 2
MaxWorkers == 2

Workers == 1..MaxWorkers

\* class JobStatus
JOB_QUEUED == "QUEUED"
JOB_PROCESSING == "PROCESSING"
JOB_COMPLETED == "COMPLETED"
JOB_FAILED == "FAILED"

\* A loop at the top of `while True`, its session holding no Job.
Polling == [pc |-> "poll", job |-> 0]

JobIdle ==
    /\ jobs = <<>>
    /\ worker = [w \in Workers |-> Polling]
    /\ runs = <<>>

JobFrame ==
    /\ UNCHANGED splitVars
    /\ UNCHANGED storeVars
    /\ UNCHANGED promptVars
    /\ UNCHANGED convVars

\* POST /jobs/: Job(status=JobStatus.QUEUED, ...) added and committed.
create_job ==
    /\ Len(jobs) < MaxJobs
    /\ jobs' = Append(jobs, JOB_QUEUED)
    /\ runs' = Append(runs, 0)
    /\ UNCHANGED worker
    /\ JobFrame

\* line 39: db.query(Job).filter(Job.status == JobStatus.QUEUED).first(), a
\* plain SELECT with no ORDER BY: some job whose committed status is QUEUED.
\* (With none, lines 41-44 sleep and poll again: nothing changes.)
Poll(w) ==
    /\ worker[w].pc = "poll"
    /\ \E j \in DOMAIN jobs :
          /\ jobs[j] = JOB_QUEUED
          /\ worker' = [worker EXCEPT ![w] = [pc |-> "claim", job |-> j]]
    /\ UNCHANGED <<jobs, runs>>
    /\ JobFrame

\* lines 49-50: job.status = PROCESSING; db.commit(). The flush is an UPDATE of
\* the row by its primary key, whatever status the row has by now. If the
\* commit raises, lines 427-431 log, sleep and close the session.
Claim(w) ==
    LET j == worker[w].job
    IN  /\ worker[w].pc = "claim"
        /\ \/ /\ jobs' = [jobs EXCEPT ![j] = JOB_PROCESSING]
              /\ runs' = [runs EXCEPT ![j] = @ + 1]
              /\ worker' = [worker EXCEPT ![w].pc = "dispatch"]
           \/ /\ worker' = [worker EXCEPT ![w] = Polling]
              /\ UNCHANGED <<jobs, runs>>
        /\ JobFrame

\* lines 52-425: the dispatch, then COMPLETED committed (lines 407-409), or the
\* handler of lines 412-425 committing FAILED with a JobEvent; a commit that
\* raises in the handler reaches lines 427-431 and the row keeps its status.
Finish(w) ==
    LET j == worker[w].job
    IN  /\ worker[w].pc = "dispatch"
        /\ \/ jobs' = [jobs EXCEPT ![j] = JOB_COMPLETED]
           \/ jobs' = [jobs EXCEPT ![j] = JOB_FAILED]
           \/ UNCHANGED jobs
        /\ worker' = [worker EXCEPT ![w] = Polling]
        /\ UNCHANGED runs
        /\ JobFrame

-----------------------------------------------------------------------------
(* The specifications                                                      *)

Docs == 1..Len(documents)

\* RecursiveCharacterTextSplitter(chunk_size=1000, chunk_overlap=200)
IngestChunkSize == 1000
IngestChunkOverlap == 200

\* No split_text call is being followed.
SplitIdle ==
    /\ text = <<>>
    /\ chunk_size = IngestChunkSize
    /\ chunk_overlap = IngestChunkOverlap
    /\ start = 0
    /\ chunks = <<>>
    /\ spans = <<>>
    /\ spc = "idle"

Init ==
    /\ StoreInit
    /\ SplitIdle
    /\ PromptIdle
    /\ ConvIdle
    /\ JobIdle

Next ==
    \/ \E f \in Firms, s \in Scopes, c \in Clients \cup {None}, k \in Kits \cup {None} :
          upload_document(f, s, c, k)
    \/ \E f \in Firms, c \in Clients : upload_client_document(f, c)
    \/ \E f \in Firms, v \in Conversations : upload_conversation_document(f, v)
    \/ \E s \in Scopes, c \in {None, "c1"}, k \in {None, "k1"} : AddDocument(s, c, k)
    \/ \E d \in Docs : IngestBegin(d)
    \/ \E d \in Docs : IngestRun(d)
    \/ IngestUnknown(Len(documents) + 1)
    \/ \E f \in Firms, c \in Clients, ks \in SUBSET Kits, q \in QueryVecs, l \in Limits :
          retrieve(f, c, ks, q, l)
    \/ Deliver

Spec == Init /\ [][Next]_vars

SplitStart == SplitInit /\ StoreInit /\ PromptIdle /\ ConvIdle /\ JobIdle

SplitSpec == SplitStart /\ [][SplitNext]_vars

\* Uploads of client documents and their ingestions, with ingest_document
\* invoked again for a Document whose task is over.
ReingestNext ==
    \/ \E f \in Firms, c \in Clients : upload_client_document(f, c)
    \/ \E d \in Docs : IngestBegin(d)
    \/ \E d \in Docs : IngestRun(d)
    \/ \E d \in Docs : Reingest(d)
    \/ Deliver

ReingestSpec == Init /\ [][ReingestNext]_vars

\* The reference scenario: one text of ScenarioLen characters is uploaded as
\* a client document and ingested with chunk_size=1000, chunk_overlap=200.
\* The texts tried have no space, or one: at every SpaceStep-th position and
\* next to the ends of the text and of the two windows split_text searches.
OneSpaceText(p) == [i \in 1..ScenarioLen |-> IF i = p THEN " " ELSE "a"]

\* The windows searched for a space are text[0:1000] and text[800:1800]; the
\* rest, text[1600:], is emitted without a search (lines 18-20).
SearchedPrefix == 2 * IngestChunkSize - IngestChunkOverlap

SpacePositions ==
    {p \in 0..ScenarioLen : p % SpaceStep = 0}
        \cup {1, IngestChunkSize, IngestChunkSize + 1, SearchedPrefix, SearchedPrefix + 1,
              ScenarioLen}

ScenarioTexts == {OneSpaceText(p) : p \in SpacePositions}

ScenarioInit ==
    /\ StoreInit
    /\ PromptIdle
    /\ ConvIdle
    /\ JobIdle
    /\ text \in ScenarioTexts
    /\ chunk_size = IngestChunkSize
    /\ chunk_overlap = IngestChunkOverlap
    /\ start = 0
    /\ chunks = <<>>
    /\ spans = <<>>
    /\ spc = "entry"

\* split_text runs inside the task, between the commit of PROCESSING and the
\* end of the run.
Chunking == response = NoResponse /\ \E d \in Docs : task[d] = "processing"

ScenarioNext ==
    \/ \E f \in Firms, c \in Clients : documents = <<>> /\ upload_client_document(f, c)
    \/ \E d \in Docs : IngestBegin(d)
    \/ Chunking /\ SplitEnter
    \/ Chunking /\ SplitIter
    \/ Chunking /\ SplitLast
    \/ \E d \in Docs : IngestRun(d)
    \/ Deliver

ScenarioSpec == ScenarioInit /\ [][ScenarioNext]_vars

\* The reference scenario with the loop of split_text followed past MaxChunks
\* iterations, and what the scheduling gives: a response is delivered, a
\* scheduled task starts (BackgroundTasks runs it after the response), the
\* loop of split_text takes its next iteration, and every call the task makes
\* of storage, parser, embedder or a commit returns or raises. Nothing makes
\* split_text raise. The texts are those with the space at a LiveStep-th
\* position.
LiveNext ==
    \/ ScenarioNext
    \/ Chunking /\ SplitSpin

SplitStep == Chunking /\ (SplitEnter \/ SplitIter \/ SplitLast \/ SplitSpin)

RunStep(d) == d \in Docs /\ IngestRun(d) /\ response'.at # "splitter"

LiveStep == 150

LiveInit == ScenarioInit /\ \E p \in SpacePositions : p % LiveStep = 0 /\ text = OneSpaceText(p)

LiveSpec ==
    /\ LiveInit
    /\ [][LiveNext]_vars
    /\ WF_vars(Deliver)
    /\ WF_vars(SplitStep)
    /\ \A d \in 1..MaxDocs : WF_vars(d \in Docs /\ IngestBegin(d))
    /\ \A d \in 1..MaxDocs : WF_vars(RunStep(d))

\* Tenants' users creating conversations, attaching kits, uploading through
\* the three endpoints and chatting, with the ingestions in between; uploads
\* stop at MaxChatDocs documents.
MaxChatDocs == 1

ChatUploads == Len(documents) < MaxChatDocs

ChatNext ==
    \/ \E f \in Firms, c \in Clients, sv \in BOOLEAN : create_conversation(f, c, sv)
    \/ \E f \in Firms, v \in ConvIds, ks \in SUBSET Kits : attach_kits(f, v, ks)
    \/ \E f \in Firms, s \in Scopes, c \in Clients \cup {None}, k \in Kits \cup {None} :
          ChatUploads /\ upload_document(f, s, c, k)
    \/ \E f \in Firms, c \in Clients : ChatUploads /\ upload_client_document(f, c)
    \/ \E f \in Firms, v \in DOMAIN conversations :
          ChatUploads /\ upload_conversation_document(f, conversations[v])
    \/ \E d \in Docs : IngestBegin(d)
    \/ \E d \in Docs : IngestRun(d)
    \/ \E f \in Firms, v \in ConvIds, q \in QueryVecs : chat(f, v, q)
    \/ Deliver

ChatSpec == Init /\ [][ChatNext]_vars

\* Jobs being created while MaxWorkers run_worker loops poll the jobs table.
WorkerNext ==
    \/ create_job
    \/ \E w \in Workers : Poll(w)
    \/ \E w \in Workers : Claim(w)
    \/ \E w \in Workers : Finish(w)

WorkerSpec == Init /\ [][WorkerNext]_vars

\* format_context_for_prompt on every small hit list.
PromptStart ==
    /\ StoreInit
    /\ SplitIdle
    /\ ConvIdle
    /\ JobIdle
    /\ prompt_docs \in HitLists
    /\ prompt_context = None

PromptNext == format_context_for_prompt

PromptSpec == PromptStart /\ [][PromptNext]_vars

-----------------------------------------------------------------------------
(* Claims about the chunker, under SplitSpec                               *)

\* C4: split_text terminates for every text, chunk_size >= 1 and
\* 0 <= overlap < chunk_size: the cursor `start` strictly increases on every loop
\* iteration that does not break.
C4_CursorStrictlyIncreases ==
    [][(spc = "loop" /\ spc' = "loop") => start' > start]_vars

\* C5: for every non-empty text, once split_text has returned, every character
\* position of text lies inside at least one emitted chunk.
C5_ChunkCoverage ==
    (spc = "done" /\ text # <<>>) =>
        \A p \in 0..(Len(text) - 1) :
            \E i \in 1..Len(spans) : spans[i].from <= p /\ p < spans[i].to

\* C6: every emitted chunk has length <= chunk_size and is a contiguous verbatim
\* substring of the input text.
C6_ChunkBound ==
    \A i \in 1..Len(chunks) :
        /\ Len(chunks[i]) <= chunk_size
        /\ \E s \in 0..Len(text) : chunks[i] = Slice(text, s, s + Len(chunks[i]))

\* C6's case: a returned list holding a hard-break chunk of chunk_size characters
\* and a shorter chunk cut at a space.
C6_Witness ==
    /\ spc = "done"
    /\ \E i, j \in 1..Len(chunks) :
          /\ Len(chunks[i]) = chunk_size
          /\ spans[i].to < Len(text)
          /\ chunks[j] # <<>>
          /\ Len(chunks[j]) < chunk_size
          /\ spans[j].to < Len(text)

\* C25: a loop iteration that does not break emits text[start : start+L] and
\* moves start to start + L - overlap when the last space of the window is at
\* offset L, emits the whole window and moves start to start + chunk_size -
\* overlap when the window has no space; start is then clamped to >= 0.
C25_CursorRule ==
    [][(spc = "loop" /\ spc' = "loop")
          => LET end == start + chunk_size
                 L == RFindSpace(Slice(text, start, end))
                 to == IF L = -1 THEN end ELSE start + L
                 next == to - chunk_overlap
             IN  /\ Len(chunks') = Len(chunks) + 1
                 /\ spans'[Len(spans')] = [from |-> start, to |-> to]
                 /\ chunks'[Len(chunks')] = Slice(text, start, to)
                 /\ start' = IF next < 0 THEN 0 ELSE next]_vars

\* C27: split_text returns at least one chunk for a non-empty text, and no
\* chunk it emits is the empty string.
C27_NoEmptyChunk ==
    /\ (spc = "done" /\ text # <<>>) => chunks # <<>>
    /\ \A i \in 1..Len(chunks) : chunks[i] # <<>>

-----------------------------------------------------------------------------
(* Claims about the store, under Spec                                      *)

Retrieved == response.op = "retrieve" /\ response.status = 200

\* The Document owning doc_embeddings row r.
HitDoc(r) == documents[doc_embeddings[r].document_id]

\* The rows eligible for request q as the specification words it: CUSTOMER scope
\* with the query's customer, TENANT scope with the query's tenant, ORG_PACK scope
\* with a pack of pack_ids.
EligibleRows(q) ==
    {r \in 1..Len(doc_embeddings) :
        \/ (HitDoc(r).scope = "CLIENT" /\ HitDoc(r).client_id = q.client_id)
        \/ (HitDoc(r).scope = "FIRM" /\ HitDoc(r).firm_id = q.firm_id)
        \/ (HitDoc(r).scope = "KIT" /\ HitDoc(r).kit_id \in q.kit_ids)}

\* C1: retrieve(query, firm_id=T1, ...) never returns a chunk whose Document has
\* firm_id = T2 or whose client_id is a customer of T2, for any T2 # T1.
C1_TenantIsolation ==
    Retrieved =>
        \A i \in 1..Len(response.hits) : \A T2 \in Firms \ {response.firm_id} :
            /\ HitDoc(response.hits[i]).firm_id # T2
            /\ HitDoc(response.hits[i]).client_id # None
                  => ClientFirm(HitDoc(response.hits[i]).client_id) # T2

\* C2: the hits are eligible rows; with limit >= the number of eligible rows they
\* are exactly the eligible rows; with no kit_ids no KIT-scope chunk is returned.
C2_ScopeCompleteness ==
    Retrieved =>
        /\ Range(response.hits) \subseteq EligibleRows(response)
        /\ response.limit >= Cardinality(EligibleRows(response))
              => Range(response.hits) = EligibleRows(response)
        /\ response.kit_ids = {}
              => \A h \in Range(response.hits) : HitDoc(h).scope # "KIT"

\* C2's case: a CLIENT document of customer X and a KIT document both have chunks,
\* the request names X and no kit, and only the CLIENT document's chunks come back.
C2_Witness ==
    /\ Retrieved
    /\ response.kit_ids = {}
    /\ \E r \in 1..Len(doc_embeddings) : HitDoc(r).scope = "KIT"
    /\ response.hits # <<>>
    /\ \A h \in Range(response.hits) :
          HitDoc(h).scope = "CLIENT" /\ HitDoc(h).client_id = response.client_id

\* C3: once a Document's persisted status is READY or FAILED it never changes.
C3_Terminality ==
    [][\A d \in Docs :
          documents[d].status \in {READY, FAILED}
              => documents'[d].status = documents[d].status]_vars

\* C3's case: one Document READY, one FAILED, both tasks over, and a retrieval
\* served from the READY one.
C3_Witness ==
    /\ \E d \in Docs : documents[d].status = FAILED /\ task[d] = "done"
    /\ \E d \in Docs : documents[d].status = READY /\ task[d] = "done"
    /\ Retrieved
    /\ response.hits # <<>>

\* C7: retrieve returns exactly min(limit, eligible) hits, in non-decreasing
\* distance, no eligible row left out being strictly closer than a returned one;
\* with nothing eligible the list is empty.
C7_RankingOrder ==
    Retrieved =>
        LET hits == response.hits
            E == EligibleRows(response)
            d(r) == Distance(r, response.query_vector)
        IN  /\ Len(hits) = Min(response.limit, Cardinality(E))
            /\ \A i, j \in 1..Len(hits) : i < j => (hits[i] # hits[j] /\ d(hits[i]) <= d(hits[j]))
            /\ \A e \in E \ Range(hits) : \A h \in Range(hits) : d(h) <= d(e)
            /\ E = {} => hits = <<>>

\* C7's case: more eligible rows than the limit, at different distances, the
\* farther one cut off.
C7_Witness ==
    /\ Retrieved
    /\ response.limit < Cardinality(EligibleRows(response))
    /\ \E e \in EligibleRows(response) \ Range(response.hits) :
          \E h \in Range(response.hits) :
              Distance(h, response.query_vector) < Distance(e, response.query_vector)

\* C8: eligible chunks at equal distance are returned in insertion order, also
\* when the tie straddles the limit.
C8_TieBreakInsertionOrder ==
    Retrieved =>
        LET hits == response.hits
            d(r) == Distance(r, response.query_vector)
        IN  /\ \A i, j \in 1..Len(hits) :
                  (i < j /\ d(hits[i]) = d(hits[j])) => hits[i] < hits[j]
            /\ \A e \in EligibleRows(response) \ Range(hits) : \A h \in Range(hits) :
                  d(h) = d(e) => h < e

\* scope and identifiers agree: client_id iff CLIENT, kit_id iff KIT, never both.
ScopeConsistent(doc) ==
    /\ doc.client_id # None <=> doc.scope = "CLIENT"
    /\ doc.kit_id # None <=> doc.scope = "KIT"
    /\ ~(doc.client_id # None /\ doc.kit_id # None)

\* C9: every Document of the store has client_id iff its scope is CLIENT and
\* kit_id iff its scope is KIT; a Document that violates this is refused by the
\* store, and no upload endpoint ever builds one (the store refuses no row of
\* an upload: an upload that fails after its commit has stored its row).
C9_ScopeIdConsistency ==
    /\ \A d \in Docs : ScopeConsistent(documents[d])
    /\ response.op = "add" => (response.status = 200 <=> ScopeConsistent(response.doc))
    /\ (response.op = "upload" /\ response.status = 500) => response.stored

\* C9's case: beside an uploaded Document, a FIRM-scope Document carrying a
\* client_id has just been refused.
C9_Witness ==
    /\ response.op = "add"
    /\ response.status = 500
    /\ response.doc.scope = "FIRM"
    /\ response.doc.client_id # None
    /\ \E d \in Docs : documents[d].scope = "FIRM" /\ task[d] # "none"

NewDocs == (Len(documents) + 1)..Len(documents')

-----------------------------------------------------------------------------
(* The ingestion task's failure paths (ingestion.py)                       *)

\* The Chunk rows persisted for Document d.
RowsOf(d) == {r \in 1..Len(doc_embeddings) : doc_embeddings[r].document_id = d}

\* The step that leads to the primed state was a step of ingest_document(d)
\* that took the branch `outcome`.
IngestStep(d, outcome) ==
    /\ response = NoResponse
    /\ response'.op = "ingest"
    /\ response'.document_id = d
    /\ response'.outcome = outcome

\* The status write of that step was persisted: the branch's own commit went
\* through, or it raised and the handler's commit went through.
StatusWritten == response'.handler # "failed"

\* C11: a Document whose status is UPLOADED, PROCESSING or FAILED has no
\* persisted Chunk row, on every path of the ingestion, a failure between the
\* first db.add and the final commit included.
C11_NoPartialChunks ==
    \A d \in Docs :
        documents[d].status \in {UPLOADED, PROCESSING, FAILED} => RowsOf(d) = {}

\* C12: when the extracted text is empty, the Document is FAILED and the task
\* has stopped; the chunker and the embedder were not called, no Chunk row was
\* persisted and nothing was raised to the caller.
C12_EmptyExtraction ==
    [][\A d \in Docs :
          IngestStep(d, "empty")
              => /\ documents'[d].status = FAILED
                 /\ task'[d] = "done"
                 /\ response'.calls \cap (Splitter \cup Embedder) = {}
                 /\ doc_embeddings' = doc_embeddings
                 /\ ~response'.raised]_vars

\* C12 amended: as C12, the status being FAILED whenever a commit of it went
\* through (line 69, or the handler's after line 69 raised).
C12_EmptyExtractionAmended ==
    [][\A d \in Docs :
          IngestStep(d, "empty")
              => /\ StatusWritten => documents'[d].status = FAILED
                 /\ task'[d] = "done"
                 /\ response'.calls \cap (Splitter \cup Embedder) = {}
                 /\ doc_embeddings' = doc_embeddings
                 /\ ~response'.raised]_vars

\* C12's case: an ingestion found no text and left its Document FAILED.
C12_Witness ==
    /\ response.op = "ingest"
    /\ response.outcome = "empty"
    /\ response.at = "none"
    /\ response.calls = Storage \cup Parser
    /\ documents[response.document_id].status = FAILED
    /\ task[response.document_id] = "done"

\* The stages C13 names: storage resolution, extraction, chunking, embedding,
\* and the persistence of the chunks (the loop of db.add, the commit of READY).
RaisedIn(d) ==
    /\ response = NoResponse
    /\ response'.op = "ingest"
    /\ response'.document_id = d
    /\ \/ response'.at \in {"storage", "parser", "splitter", "embedder", "add"}
       \/ response'.outcome = "ready" /\ response'.at = "commit"

\* C13: an exception raised by storage resolution, extraction, chunking,
\* embedding or chunk persistence is caught: the Document is FAILED whenever
\* that status write succeeds, nothing is raised to the caller, and the task
\* is over: it makes no second attempt.
C13_FailureAbsorption ==
    [][\A d \in Docs :
          /\ RaisedIn(d)
                => /\ response'.handler = "committed" => documents'[d].status = FAILED
                   /\ ~response'.raised
                   /\ task'[d] = "done"
          /\ task[d] = "done" => task'[d] = "done"]_vars

\* C13's case: the embedder raised, the handler committed FAILED.
C13_Witness ==
    /\ response.op = "ingest"
    /\ response.at = "embedder"
    /\ response.handler = "committed"
    /\ documents[response.document_id].status = FAILED
    /\ task[response.document_id] = "done"

\* C18: when the file cannot be resolved, the Document is FAILED and the task
\* has stopped without extracting, chunking, embedding or persisting a chunk.
C18_StorageResolutionFailure ==
    [][\A d \in Docs :
          IngestStep(d, "not_found")
              => /\ documents'[d].status = FAILED
                 /\ task'[d] = "done"
                 /\ response'.calls \subseteq Storage
                 /\ doc_embeddings' = doc_embeddings]_vars

\* C18 amended: as C18, the status being FAILED whenever a commit of it went
\* through (line 56, or the handler's after line 56 raised).
C18_StorageResolutionFailureAmended ==
    [][\A d \in Docs :
          IngestStep(d, "not_found")
              => /\ StatusWritten => documents'[d].status = FAILED
                 /\ task'[d] = "done"
                 /\ response'.calls \subseteq Storage
                 /\ doc_embeddings' = doc_embeddings]_vars

\* C18's case: a download returned nothing and the Document was left FAILED.
C18_Witness ==
    /\ response.op = "ingest"
    /\ response.outcome = "not_found"
    /\ response.at = "none"
    /\ response.calls = Storage
    /\ documents[response.document_id].status = FAILED
    /\ task[response.document_id] = "done"

\* C19: ingest_document for an id with no Document row returns without raising,
\* changes nothing in the store and calls no collaborator.
C19_UnknownDocument ==
    [][(response = NoResponse /\ response'.op = "ingest" /\ response'.outcome = "unknown")
          => /\ response'.document_id \notin Docs
             /\ ~response'.raised
             /\ response'.calls = {}
             /\ UNCHANGED <<documents, doc_embeddings, task>>]_vars

\* C19's case: ingest_document ran for an id that no row has, next to a
\* Document that exists.
C19_Witness ==
    /\ response.op = "ingest"
    /\ response.outcome = "unknown"
    /\ response.document_id \notin Docs
    /\ Docs # {}

-----------------------------------------------------------------------------
(* Uploads and the ingestion they trigger                                  *)

\* C14: an upload that succeeds creates exactly one Document, UPLOADED, with
\* ingest_document scheduled for it; an upload that is rejected or fails
\* creates no Document and schedules nothing; an ingestion is never scheduled
\* again, so no Document has two invocations.
C14_ExactlyOnceTriggering ==
    [][/\ (response = NoResponse /\ response'.op = "upload")
            => IF response'.status = 200
               THEN /\ Len(documents') = Len(documents) + 1
                    /\ \A d \in NewDocs :
                          documents'[d].status = UPLOADED /\ task'[d] = "scheduled"
               ELSE documents' = documents /\ task' = task
       /\ \A d \in Docs :
             /\ task[d] # "scheduled" => task'[d] # "scheduled"
             /\ task[d] = "done" => task'[d] = "done"]_vars

-----------------------------------------------------------------------------
(* Retrieval when the embedder fails                                       *)

\* C17: when embedding the query raises, retrieve raises to its caller: the
\* store has not been queried and no hit list is returned.
C17_RetrievalErrorPropagation ==
    (response.op = "retrieve" /\ ~response.embedded)
        => /\ response.status = 500
           /\ ~response.queried
           /\ "hits" \notin DOMAIN response

\* C17's case: the embedder raised while the store held rows that a query
\* would have matched.
C17_Witness ==
    /\ response.op = "retrieve"
    /\ ~response.embedded
    /\ \E f \in Firms : Matching(f, None, {}) # {}

-----------------------------------------------------------------------------
(* Claims about the prompt context, under PromptSpec                       *)

\* The positions of `line` in the context.
PositionsOf(line) == {i \in 1..Len(prompt_context) : prompt_context[i] = line}

\* The lines under the header at position h: up to the next blank line or the end.
LinesUnder(h) ==
    LET stop == {i \in (h + 1)..Len(prompt_context) : prompt_context[i] = ""}
        last == IF stop = {} THEN Len(prompt_context)
                ELSE (CHOOSE i \in stop : \A j \in stop : i <= j) - 1
    IN  SubSeq(prompt_context, h + 1, last)

\* The chunk texts of the hits of one scope, in the order of the hit list.
HitsOfScope(scope) ==
    LET sel == SelectSeq(prompt_docs, LAMBDA d : d.scope = scope)
    IN  [i \in 1..Len(sel) |-> sel[i].chunk_text]

\* C20: the context has one section per scope that has a hit, in the order KIT,
\* FIRM, CLIENT whatever the order of the hits; a scope without a hit has no
\* header; each hit's text is there once, under the header of its scope, in
\* the order of the hits; no hit gives the empty context.
C20_PromptSectionOrdering ==
    prompt_context # None =>
        /\ \A s \in Scopes :
              IF HitsOfScope(s) = <<>>
              THEN PositionsOf(Header(s)) = {}
              ELSE /\ Cardinality(PositionsOf(Header(s))) = 1
                   /\ \A h \in PositionsOf(Header(s)) : LinesUnder(h) = HitsOfScope(s)
        /\ \A h1 \in PositionsOf(Header("KIT")) :
              \A h2 \in PositionsOf(Header("FIRM")) \cup PositionsOf(Header("CLIENT")) : h1 < h2
        /\ \A h1 \in PositionsOf(Header("FIRM")) :
              \A h2 \in PositionsOf(Header("CLIENT")) : h1 < h2
        /\ Cardinality({i \in 1..Len(prompt_context) : prompt_context[i] \in ChunkTexts})
              = Len(prompt_docs)
        /\ prompt_docs = <<>> => prompt_context = <<>>

\* C20's case: hits given in the order CLIENT, FIRM, KIT were formatted into
\* three sections.
C20_Witness ==
    /\ prompt_context # None
    /\ Len(prompt_docs) = 3
    /\ prompt_docs[1].scope = "CLIENT"
    /\ prompt_docs[2].scope = "FIRM"
    /\ prompt_docs[3].scope = "KIT"
    /\ Len(prompt_context) = 8

-----------------------------------------------------------------------------
(* Repeated ingestion, under ReingestSpec                                  *)

\* The rows of table `rows` that belong to Document d, and those with index i.
RowsIn(rows, d) == {r \in 1..Len(rows) : rows[r].document_id = d}
RowsAt(rows, d, i) == {r \in RowsIn(rows, d) : rows[r].chunk_index = i}

\* C15: a second ingestion of a Document that succeeds skips nothing, replaces
\* nothing and deletes nothing: the earlier rows stay, the Document is READY,
\* the n rows the run built are appended with the indices 0..n-1, and, the first ingestion
\* having persisted the same n chunks, the Document has 2n rows, each of the
\* indices 0..n-1 twice.
C15_NonIdempotentIngestion ==
    [][\A d \in Docs :
          (IngestStep(d, "ready") /\ response'.at = "none" /\ RowsIn(doc_embeddings, d) # {})
              => LET old == Len(doc_embeddings)
                     n == Len(doc_embeddings') - old
                 IN  /\ SubSeq(doc_embeddings', 1, old) = doc_embeddings
                     /\ documents'[d].status = READY
                     /\ n = Min(response'.chunks, Len(response'.vectors))
                     /\ \A r \in (old + 1)..(old + n) :
                           /\ doc_embeddings'[r].document_id = d
                           /\ doc_embeddings'[r].chunk_index = r - old - 1
                     /\ (\A i \in 0..(n - 1) : Cardinality(RowsAt(doc_embeddings, d, i)) = 1)
                           /\ Cardinality(RowsIn(doc_embeddings, d)) = n
                        => /\ Cardinality(RowsIn(doc_embeddings', d)) = 2 * n
                           /\ \A i \in 0..(n - 1) :
                                 Cardinality(RowsAt(doc_embeddings', d, i)) = 2]_vars

\* C15's case: a Document ingested twice with success, two chunks each time.
C15_Witness ==
    \E d \in Docs :
        /\ documents[d].status = READY
        /\ task[d] = "done"
        /\ Cardinality(RowsIn(doc_embeddings, d)) = 4
        /\ Cardinality(RowsAt(doc_embeddings, d, 0)) = 2
        /\ Cardinality(RowsAt(doc_embeddings, d, 1)) = 2

-----------------------------------------------------------------------------
(* The reference scenario, under ScenarioSpec                              *)

\* The last n characters of s.
Suffix(s, n) == SubSeq(s, Len(s) - n + 1, Len(s))

\* Chunk i starts with the chunk_overlap characters chunk i-1 ends with.
SharesOverlap(i) ==
    /\ Len(chunks[i]) >= chunk_overlap
    /\ Len(chunks[i - 1]) >= chunk_overlap
    /\ SubSeq(chunks[i], 1, chunk_overlap) = Suffix(chunks[i - 1], chunk_overlap)

\* What the scenario expects of a finished split and of a finished ingestion.
ThreeChunks ==
    spc = "done"
        => /\ Len(chunks) = 3
           /\ \A i \in 1..Len(chunks) : Len(chunks[i]) <= chunk_size
           /\ \A i \in 2..Len(chunks) : SharesOverlap(i)

ThreeRows ==
    \A d \in Docs :
        documents[d].status = READY
            => /\ Cardinality(RowsOf(d)) = 3
               /\ \A i \in 0..2 : \E r \in RowsOf(d) : doc_embeddings[r].chunk_index = i

\* The status of a Document moves along UPLOADED -> PROCESSING -> READY.
ReadyThroughProcessing ==
    \A d \in Docs :
        /\ documents'[d].status = READY => documents[d].status \in {PROCESSING, READY}
        /\ documents'[d].status = PROCESSING => documents[d].status \in {UPLOADED, PROCESSING}

\* C16: ingesting a text of 2,400 characters with chunk_size=1000 and
\* chunk_overlap=200 gives exactly 3 chunks, each of at most 1000 characters
\* and each starting with the last 200 characters of the one before, and the
\* status goes UPLOADED, PROCESSING, READY: for every such text, wherever its
\* spaces are.
C16_ReferenceScenario ==
    [][ThreeChunks' /\ ThreeRows' /\ ReadyThroughProcessing]_vars

\* No space among the first SearchedPrefix (1,800) characters of the text.
NoSpaceSearched == \A i \in 1..SearchedPrefix : text[i] # " "

\* The scenario's numbers do come out of the hard-break branch alone: a text
\* whose first 1,800 characters hold no space is split into text[0:1000],
\* text[800:1800] and text[1600:2400].
ScenarioWithoutSpaces ==
    [][/\ NoSpaceSearched => ThreeChunks'
       /\ (NoSpaceSearched /\ spc' = "done")
             => spans' = <<[from |-> 0, to |-> chunk_size],
                           [from |-> chunk_size - chunk_overlap,
                            to |-> 2 * chunk_size - chunk_overlap],
                           [from |-> 2 * (chunk_size - chunk_overlap), to |-> Len(text)]>>
       /\ ReadyThroughProcessing]_vars

-----------------------------------------------------------------------------
(* The rows of a finished ingestion, under Spec                            *)

\* The step that leads to the primed state ended ingest_document(d) with READY.
EndsReady(d) == IngestStep(d, "ready") /\ response'.at = "none"

\* C26: an ingestion that ends READY has persisted one row per chunk that
\* split_text returned, at least one: the row of the i-th chunk has
\* chunk_index i (from 0, each once), the i-th chunk text and the i-th vector
\* of embed_batch, however many vectors embed_batch returned.
C26_OneRowPerChunk ==
    [][\A d \in Docs :
          EndsReady(d)
              => LET old == Len(doc_embeddings)
                     n == response'.chunks
                 IN  /\ documents'[d].status = READY
                     /\ n >= 1
                     /\ Len(doc_embeddings') = old + n
                     /\ \A i \in 1..n :
                           /\ doc_embeddings'[old + i].document_id = d
                           /\ doc_embeddings'[old + i].chunk_index = i - 1
                           /\ doc_embeddings'[old + i].chunk_text = ChunkText(i)
                           /\ doc_embeddings'[old + i].embedding = response'.vectors[i]]_vars

\* The step that leads to the primed state was a step of ingest_document(d).
IngestStepOf(d) ==
    /\ response = NoResponse
    /\ response'.op = "ingest"
    /\ response'.document_id = d

\* The rows a step appended to the table.
Appended == SubSeq(doc_embeddings', Len(doc_embeddings) + 1, Len(doc_embeddings'))

\* C22: no retrieve returns a chunk of a Document whose committed status is
\* UPLOADED or PROCESSING, and the rows of a Document become visible only in
\* the commit that takes it from PROCESSING to READY, all the rows of that
\* ingestion at once.
C22_RetrievalDuringIngestion ==
    [][/\ Retrieved'
            => \A h \in Range(response'.hits) :
                  documents'[doc_embeddings'[h].document_id].status
                      \notin {UPLOADED, PROCESSING}
       /\ \A d \in Docs :
             RowsIn(doc_embeddings', d) # RowsIn(doc_embeddings, d)
                 => /\ documents[d].status = PROCESSING
                    /\ documents'[d].status = READY
                    /\ EndsReady(d)
                    /\ Len(Appended) = Min(response'.chunks, Len(response'.vectors))]_vars

\* C23: ingest_document calls the storage adapter, the parser, the chunker or
\* the embedder only once PROCESSING is committed; the chunker is called before
\* the embedder, the embedder before any row is added, and READY is set only
\* when every chunk has been added.
C23_ProcessingFirst ==
    [][\A d \in Docs :
          IngestStepOf(d)
              => /\ response'.calls # {} => documents[d].status = PROCESSING
                 /\ Embedder \subseteq response'.calls => Splitter \subseteq response'.calls
                 /\ Appended # <<>> => Embedder \subseteq response'.calls
                 /\ documents'[d].status = READY
                       => /\ EndsReady(d)
                          /\ Len(Appended) = response'.chunks]_vars

\* C24: a step of ingest_document(d) changes of the documents table only d's
\* status and of the doc_embeddings table nothing that is there: it only
\* appends rows of d. This under every interleaving with the steps of another
\* Document's ingestion.
C24_IngestionFrame ==
    [][\A d \in Docs :
          IngestStepOf(d)
              => /\ Len(documents') = Len(documents)
                 /\ \A e \in Docs \ {d} : documents'[e] = documents[e]
                 /\ documents'[d] = [documents[d] EXCEPT !.status = documents'[d].status]
                 /\ SubSeq(doc_embeddings', 1, Len(doc_embeddings)) = doc_embeddings
                 /\ \A r \in 1..Len(Appended) : Appended[r].document_id = d]_vars

\* C24's case: an ingestion has persisted its rows and set READY while another
\* Document of the same firm, with rows of its own, is being ingested.
C24_Witness ==
    /\ response.op = "ingest"
    /\ response.outcome = "ready"
    /\ response.at = "none"
    /\ \E d, e \in Docs :
          /\ d # e
          /\ response.document_id = d
          /\ documents[d].status = READY
          /\ RowsOf(d) # {}
          /\ documents[e].firm_id = documents[d].firm_id
          /\ task[e] = "processing"

-----------------------------------------------------------------------------
(* Liveness of the ingestion, under LiveSpec                               *)

\* C21: for every Document an upload created, the scheduled ingest_document
\* run ends and the Document ends READY or FAILED: none stays UPLOADED or
\* PROCESSING for ever, whatever the text.
C21_IngestionLiveness ==
    \A d \in 1..MaxDocs :
        /\ [](d \in Docs => <>(d \in Docs /\ documents[d].status \in {READY, FAILED}))
        /\ []((d \in Docs /\ task[d] \in {"scheduled", "processing"})
                 => <>(d \in Docs /\ task[d] = "done"))

\* The run of a task that did start comes to its end.
RunEnds ==
    \A d \in 1..MaxDocs :
        []((d \in Docs /\ task[d] = "processing") => <>(d \in Docs /\ task[d] = "done"))

-----------------------------------------------------------------------------
(* Ownership of the client of a CLIENT document, under Spec                *)

\* C29: after any sequence of uploads through the three endpoints, the
\* client_id of every CLIENT-scope Document names a client whose firm_id is
\* the Document's firm_id.
C29_ClientOfSameFirm ==
    \A d \in Docs :
        (documents[d].scope = "CLIENT" /\ documents[d].firm_id \in Firms)
            => ClientFirm(documents[d].client_id) = documents[d].firm_id

-----------------------------------------------------------------------------
(* Isolation of a chat turn, under ChatSpec                                *)

\* A chat turn that answered.
Chatted == response.op = "chat" /\ response.status = 200

\* C28: a chat turn by a user of T1 never retrieves or cites a chunk of a
\* FIRM-scope or CLIENT-scope Document that a user of another tenant T2
\* uploaded or whose client is a customer of T2.
C28_ChatIsolation ==
    Chatted =>
        \A i \in 1..Len(response.hits) :
            LET doc == HitDoc(response.hits[i])
            IN  doc.scope \in {"FIRM", "CLIENT"} =>
                    /\ doc.firm_id = response.user_firm
                    /\ doc.scope = "CLIENT" => ClientFirm(doc.client_id) = response.user_firm
                    /\ response.citations[i] = response.hits[i]

-----------------------------------------------------------------------------
(* Exclusivity of the batch worker, under WorkerSpec                       *)

\* The status changes the specification allows.
JobTransition(from, to) ==
    \/ from = JOB_QUEUED /\ to = JOB_PROCESSING
    \/ from = JOB_PROCESSING /\ to \in {JOB_COMPLETED, JOB_FAILED}

\* C30: with any number of run_worker loops on the jobs table, every job is
\* claimed and executed by at most one of them, and its status only goes
\* QUEUED -> PROCESSING -> COMPLETED or FAILED, never out of the last two.
C30_WorkerExclusivity ==
    [][/\ \A j \in DOMAIN runs' : runs'[j] <= 1
       /\ \A j \in DOMAIN jobs : jobs'[j] # jobs[j] => JobTransition(jobs[j], jobs'[j])]_vars

=============================================================================
